---- MODULE Spec2Model ----
(***************************************************************************)
(* Model of the inline member functions of the doxyllm-it fixture headers: *)
(*   Graphics::Renderer::isInitialized      (src/examples/example.hpp:85)  *)
(*   TestSpan::size, size_bytes, empty, data, begin, end                   *)
(*                                          (src/test_span_methods.hpp)    *)
(* These are the only operations of the repository that have a body.  All  *)
(* other operations (constructors, initialize, setBackend, getBackend,     *)
(* render, ...) are declared without a body, so nothing in the sources     *)
(* fixes how they change an object; an object is therefore observed in an  *)
(* arbitrary state of its fields.                                          *)
(***************************************************************************)
EXTENDS Integers, Sequences, FiniteSets

\* Width in bits of size_type and of a pointer (scaled down from 32/64).
Width == 3

\* Largest sizeof(element_type) instantiated.
MaxElemSize == 2

\* size_type and pointer values live in 0 .. Modulus-1; arithmetic wraps.
Modulus == 2 ^ Width

\* enum class Backend { OpenGL, Vulkan, DirectX12 }
Backend == {"OpenGL", "Vulkan", "DirectX12"}

\* The private fields of Renderer: backend_ and initialized_.
RendererStates == [backend_ : Backend, initialized_ : BOOLEAN]

\* The fields of TestSpan read by the member functions: storage_.ptr, storage_.size.
StorageStates == [ptr : 0 .. Modulus - 1, size : 0 .. Modulus - 1]

\* The member functions that are defined inline (have a body).
InlineOperations ==
    {"isInitialized", "size", "size_bytes", "empty", "data", "begin", "end"}

\* The operations that are declared only (no body anywhere in the headers).
DeclaredOnlyOperations ==
    {"Renderer", "initialize", "render", "setBackend", "getBackend",
     "initializeBackend", "renderInternal", "Renderer2D", "drawSprite",
     "createRenderer", "shutdownGraphics", "rgbToHsv", "clamp",
     "runApplication", "myFunction", "globalFunction", "publicMethod",
     "privateMethod"}

Operations == InlineOperations \cup DeclaredOnlyOperations

VARIABLES
    renderer,   \* a Graphics::Renderer object: [backend_, initialized_]
    storage_,   \* TestSpan::storage_: [ptr, size]
    elemSize,   \* sizeof(element_type) of the TestSpan instantiation
    hist        \* per operation: <<>> if it never returned, else <<last result>>

vars == <<renderer, storage_, elemSize, hist>>

----------------------------------------------------------------------------
(* Arithmetic of the target: size_type multiplication and pointer addition. *)

\* size_type * size_t: unsigned, reduced modulo 2^Width.
MulSizeType(a, b) == (a * b) % Modulus

\* pointer + n: the address advances by n * sizeof(element_type), in a flat
\* address space of 2^Width bytes.
PtrAdd(p, n) == (p + n * elemSize) % Modulus

----------------------------------------------------------------------------
(* The bodies. *)

IsInitializedDependsOnBackend(r) == r.initialized_ /\ r.backend_ # "Vulkan"

\* bool isInitialized() const { return initialized_; }
isInitialized(r) == r.initialized_

SizeReturnsPtr(s) == s.ptr

\* constexpr size_type size() const noexcept { return storage_.size; }
size(s) == s.size

SizeBytesNoMultiply(s) == size(s)

\* size_bytes() { return size() * sizeof(element_type); }
size_bytes(s) == MulSizeType(size(s), elemSize)

\* empty() { return size() == 0; }
empty(s) == size(s) = 0

\* data() { return storage_.ptr; }
data(s) == s.ptr

\* begin() { return data(); }
begin(s) == data(s)

EndWithoutSize(s) == data(s)

\* end() { return data() + size(); }
end(s) == PtrAdd(data(s), size(s))

----------------------------------------------------------------------------
(* One action per call of a member function that has a body. *)

Returned(op, v) == hist' = [hist EXCEPT ![op] = <<v>>]

CallIsInitializedLazyInit ==
    /\ Returned("isInitialized", isInitialized(renderer))
    /\ renderer' = [renderer EXCEPT !.initialized_ = TRUE]
    /\ UNCHANGED <<storage_, elemSize>>

CallIsInitialized ==
    /\ Returned("isInitialized", isInitialized(renderer))
    /\ UNCHANGED <<renderer, storage_, elemSize>>

CallSize ==
    /\ Returned("size", size(storage_))
    /\ UNCHANGED <<renderer, storage_, elemSize>>

CallSizeBytes ==
    /\ Returned("size_bytes", size_bytes(storage_))
    /\ UNCHANGED <<renderer, storage_, elemSize>>

CallEmpty ==
    /\ Returned("empty", empty(storage_))
    /\ UNCHANGED <<renderer, storage_, elemSize>>

CallData ==
    /\ Returned("data", data(storage_))
    /\ UNCHANGED <<renderer, storage_, elemSize>>

CallBegin ==
    /\ Returned("begin", begin(storage_))
    /\ UNCHANGED <<renderer, storage_, elemSize>>

CallEnd ==
    /\ Returned("end", end(storage_))
    /\ UNCHANGED <<renderer, storage_, elemSize>>

Init ==
    /\ renderer \in RendererStates
    /\ storage_ \in StorageStates
    /\ elemSize \in 1 .. MaxElemSize
    /\ hist = [op \in Operations |-> <<>>]

Next ==
    \/ CallIsInitialized
    \/ CallSize
    \/ CallSizeBytes
    \/ CallEmpty
    \/ CallData
    \/ CallBegin
    \/ CallEnd

Spec == Init /\ [][Next]_vars

----------------------------------------------------------------------------
(* Helpers of the properties. *)

Called(op) == Len(hist[op]) = 1

Result(op) == hist[op][1]

\* The mathematical (unbounded) byte length of the span.
ByteLength == storage_.size * elemSize

\* The byte length fits the address space: size() * sizeof(element_type)
\* does not wrap around in Width bits.
ByteLengthFits == ByteLength < Modulus

SpanObserved ==
    \A op \in {"size", "empty", "data", "begin", "end"} : Called(op)

----------------------------------------------------------------------------
(* C1: Renderer::isInitialized() returns the initialization status: in     *)
(* every Renderer state its result equals the field initialized_, whatever *)
(* the value of backend_.                                                  *)
C1_IsInitializedReturnsField ==
    Called("isInitialized") => Result("isInitialized") = renderer.initialized_

\* Reached: an initialized renderer whose backend_ is Vulkan has answered
\* TRUE.
C1_Witness ==
    /\ Called("isInitialized")
    /\ renderer.initialized_
    /\ renderer.backend_ = "Vulkan"
    /\ Result("isInitialized") = TRUE

----------------------------------------------------------------------------
(* C2 as stated: no operation of the repository has a body that computes   *)
(* a result and no entity carries state, i.e. no call of any operation     *)
(* ever returns a result.                                                  *)
C2_NoOperationComputesResult ==
    \A op \in Operations : ~Called(op)

\* The type of the value an inline operation returns.
ResultType(op) ==
    IF op \in {"isInitialized", "empty"} THEN BOOLEAN ELSE 0 .. Modulus - 1

(* C2 amended: the operations that compute a result are exactly the seven  *)
(* inline member functions (Renderer::isInitialized, TestSpan::size,       *)
(* size_bytes, empty, data, begin, end); each returns a value of its       *)
(* return type, computed from the fields of its object; every other        *)
(* operation is a declaration only and never returns anything.             *)
C2_OnlyInlineOperationsCompute ==
    \A op \in Operations :
        Called(op) =>
            /\ op \in InlineOperations
            /\ Result(op) \in ResultType(op)
            /\ op = "isInitialized" => Result(op) = renderer.initialized_
            /\ op = "size" => Result(op) = storage_.size
            /\ op = "data" => Result(op) = storage_.ptr

\* Reached: every inline operation has returned, and two of the results
\* (size and isInitialized) carry non-default object state.
C2_Witness ==
    /\ \A op \in InlineOperations : Called(op)
    /\ Result("size") = 3
    /\ Result("isInitialized") = TRUE
    /\ Result("size_bytes") = 6

----------------------------------------------------------------------------
----------------------------------------------------------------------------
(* C6 as stated: size_bytes() returns exactly the mathematical product of  *)
(* size() and sizeof(element_type), with no wrap-around, for every         *)
(* TestSpan (size() is a size_type, so it is always representable).        *)
C6_SizeBytesIsExactProduct ==
    Called("size_bytes") => Result("size_bytes") = ByteLength

(* C6 amended: size_bytes() returns the product of size() and              *)
(* sizeof(element_type) reduced modulo 2^Width; it is the exact            *)
(* mathematical product for every TestSpan whose product is representable  *)
(* in size_type.                                                           *)
C6_SizeBytesIsProductModuloWidth ==
    Called("size_bytes") =>
        /\ Result("size_bytes") = ByteLength % Modulus
        /\ ByteLengthFits => Result("size_bytes") = ByteLength

\* Reached: a span of three two-byte elements reported as six bytes.
C6_Witness ==
    /\ Called("size_bytes")
    /\ elemSize = 2
    /\ storage_.size = 3
    /\ Result("size_bytes") = 6

----------------------------------------------------------------------------
(* C7: every operation that has a body is a read-only observer: a call     *)
(* leaves backend_, initialized_, storage_.ptr and storage_.size           *)
(* unchanged, and an operation that has returned a result returns the same *)
(* result on every later call, whatever calls come in between.             *)
C7_ObserversAreReadOnly ==
    [][ /\ renderer' = renderer
        /\ storage_' = storage_
        /\ \A op \in Operations : Called(op) => hist'[op] = hist[op] ]_vars

\* Reached: all seven observers have been called on an initialized
\* renderer and a non-empty span.
C7_Witness ==
    /\ \A op \in InlineOperations : Called(op)
    /\ renderer.initialized_
    /\ storage_.size = 2

====
